---- MODULE Spec2Model ----
(***************************************************************************)
(* Catfish API (apps/api/app/main.py, aiornot.py, settings.py).           *)
(*                                                                         *)
(* The three analysis endpoints (text, image, audio) as a state machine:   *)
(* one request is served at a time (the handlers are coroutines that       *)
(* never yield once the upload has been read: every outbound call is a     *)
(* blocking call).  The outside world (generative oracle, speech-to-text,  *)
(* classifier, ffmpeg, the file system) answers nondeterministically.      *)
(*                                                                         *)
(* Conventions                                                             *)
(*  - a text (an oracle reply, a transcript, the request text) is a        *)
(*    sequence of tokens: " " and "\n" are whitespace, "FENCE" a fence line  *)
(*    delimiter (three backquotes),                                        *)
(*    "json" a language tag, "junk" any non-JSON prose, "a" a letter, and  *)
(*    "JSON" stands for the serialized text of the value carried beside    *)
(*    the text (content.value);                                            *)
(*  - a dict is a function from its keys (strings) to values;              *)
(*  - a JSON number of an oracle reply is carried as a count of tenths     *)
(*    (507 is 50.7), so that int() has something to truncate; after int()  *)
(*    the field holds a plain integer;                                     *)
(*  - a classifier confidence and a signal weight (numbers of [0, 1]) are  *)
(*    carried as counts of hundredths (90 is 0.9); the weight of a signal  *)
(*    of the oracle carries its JSON type until float() has been applied;  *)
(*  - Python's None is the string None below, an explanation or a          *)
(*    description is a sequence of its parts.                              *)
(***************************************************************************)
EXTENDS Integers, Sequences, FiniteSets, TLC

VARIABLES
    settings,       \* settings.openai_api_key, settings.aiornot_api_key
    environ,        \* os.environ["AIORNOT_API_KEY"]: Absent, "" or a key
    disk,           \* temporary files present on disk
    created,        \* temporary files this request created (history)
    req,            \* the request being served
    pc,             \* position of the handler
    content,        \* local content of the oracle client (first reply)
    result,         \* local result / gpt_result: the parsed oracle dict
    aiornot_result, \* local aiornot_result of analyze_image
    transcript,     \* local transcript of analyze_audio
    tmp,            \* locals input_path / output_path of analyze_audio
    original_key,   \* local original_key of call_aiornot_api
    calls,          \* outbound calls issued for this request, in order
    response        \* what the request returned

vars == <<settings, environ, disk, created, req, pc, content, result,
          aiornot_result, transcript, tmp, original_key, calls, response>>

(***************************************************************************)
(* Bounds                                                                  *)
(***************************************************************************)
\* temporary file names the file system can hand out
MaxTmpFiles == 2

(***************************************************************************)
(* Texts                                                                   *)
(***************************************************************************)
Whitespace == {" ", "\n"}

RECURSIVE LStrip(_)
LStrip(s) ==
    IF s = <<>> THEN s
    ELSE IF Head(s) \in Whitespace THEN LStrip(Tail(s)) ELSE s

RECURSIVE RStrip(_)
RStrip(s) ==
    IF s = <<>> THEN s
    ELSE IF s[Len(s)] \in Whitespace THEN RStrip(SubSeq(s, 1, Len(s) - 1)) ELSE s

\* str.strip()
Strip(s) == RStrip(LStrip(s))

\* str.split("\n"): always at least one (possibly empty) line
RECURSIVE SplitLines(_)
SplitLines(s) ==
    IF \A i \in 1..Len(s) : s[i] # "\n" THEN <<s>>
    ELSE LET k == CHOOSE i \in 1..Len(s) :
                      s[i] = "\n" /\ \A j \in 1..(i - 1) : s[j] # "\n"
         IN <<SubSeq(s, 1, k - 1)>> \o SplitLines(SubSeq(s, k + 1, Len(s)))

\* "\n".join(lines)
RECURSIVE JoinLines(_)
JoinLines(lines) ==
    IF lines = <<>> THEN <<>>
    ELSE IF Len(lines) = 1 THEN lines[1]
    ELSE lines[1] \o <<"\n">> \o JoinLines(Tail(lines))

\* str.startswith(fence), the fence being three backquotes
StartsWithFence(s) == s # <<>> /\ s[1] = "FENCE"

(***************************************************************************)
(* Dicts                                                                   *)
(***************************************************************************)
NoValue == <<>>

Has(d, k) == k \in DOMAIN d

DictSet(d, k, v) == [f \in (DOMAIN d) \cup {k} |-> IF f = k THEN v ELSE d[f]]

DictGet(d, k, default) == IF k \in DOMAIN d THEN d[k] ELSE default

DictPop(d, k) == [f \in (DOMAIN d) \ {k} |-> d[f]]

(***************************************************************************)
(* Response Normalizer                                                     *)
(***************************************************************************)
\* json.loads(text): the text must be one JSON value, surrounded by
\* whitespace at most.  A JSONDecodeError carries msg and doc; str(e) shows
\* msg (and a position), never doc.
JsonLoads(text, value) ==
    LET t == Strip(text) IN
    IF t = <<"JSON">>
    THEN [ok |-> TRUE, value |-> value, msg |-> "", doc |-> <<>>]
    ELSE [ok |-> FALSE, value |-> NoValue,
          msg |-> IF t # <<>> /\ t[1] = "JSON" THEN "Extra data"
                  ELSE "Expecting value",
          doc |-> text]

\* The text parse_llm_response hands to json.loads.
StripFences(raw) ==
    LET text == Strip(raw) IN
    IF StartsWithFence(text)
    THEN LET lines == Tail(SplitLines(text))
             kept == IF lines # <<>> /\ Strip(lines[Len(lines)]) = <<"FENCE">>
                     THEN SubSeq(lines, 1, Len(lines) - 1)
                     ELSE lines
         IN JoinLines(kept)
    ELSE text

parse_llm_response(c) == JsonLoads(StripFences(c.text), c.value)

\* the message followed by the document that failed to parse
StrJSONDecodeError_with_doc(e) == <<e.msg>> \o e.doc

\* str(e) of a json.JSONDecodeError
StrJSONDecodeError(e) == <<e.msg>>

(***************************************************************************)
(* Settings, requests, oracle replies: the inputs the model draws from     *)
(***************************************************************************)
OpenAIKey == "sk-openai"
AIOrNotKey == "aiornot-key"
Absent == "<absent>"

\* settings.py: both credentials default to "", and are read from the
\* environment (which wins) or from the .env file.  BaseSettings matches
\* variable names without regard to case, so a key can reach the settings
\* from a variable of another spelling while AIORNOT_API_KEY itself, the
\* name os.environ is asked for, is absent or present with an empty value.
Settings ==
    [openai_api_key : {"", OpenAIKey}, aiornot_api_key : {"", AIOrNotKey}]

MaxImageBytes == 10 * 1024 * 1024
MaxAudioBytes == 25 * 1024 * 1024

TextPayloads == {<<>>, <<" ">>, <<" ", "\n">>, <<"a">>, <<" ", "a", "\n">>}
ImageSizes == {0, 1, MaxImageBytes, MaxImageBytes + 1}
AudioSizes == {0, 1, MaxAudioBytes, MaxAudioBytes + 1}

Requests ==
    [kind : {"text"}, text : TextPayloads, size : {0}]
        \cup [kind : {"image"}, text : {<<>>}, size : ImageSizes]
        \cup [kind : {"audio"}, text : {<<>>}, size : AudioSizes]

NoRequest == [kind |-> "none", text |-> <<>>, size |-> 0]

\* Reply texts whose JSON part decodes, and reply texts that do not parse.
WellFormedTexts ==
    { <<" ", "JSON", "\n">>,
      <<"FENCE", "json", "\n", "JSON", "\n", "FENCE">>,
      <<"FENCE", "\n", "JSON">> }

MalformedTexts ==
    { <<>>,
      <<"junk", "\n", "JSON">>,
      <<"FENCE", "JSON", "FENCE">> }

\* JSON numbers, in tenths: -1.5, 0, 50.7, 100, 150
ScoreValues == {-15, 0, 507, 1000, 1500}

\* two scores of one reply
ScorePairs ==
    { <<-15, 1500>>, <<0, 507>>, <<507, 1000>>, <<1000, -15>>, <<1500, 0>> }

CategoryValues == {"safe", "suspicious", "scam_likely", "SCAM"}

NoContent == [text |-> <<>>, value |-> NoValue]

Contents(values) ==
    [text : WellFormedTexts, value : values]
        \cup [text : {t \in MalformedTexts : \E i \in 1..Len(t) : t[i] = "JSON"},
              value : {CHOOSE v \in values : TRUE}]
        \cup [text : {t \in MalformedTexts : \A i \in 1..Len(t) : t[i] # "JSON"},
              value : {NoValue}]

\* The oracle client fails (connectivity, authentication): the SDK raises.
OracleErrors == {"Connection error.", "Incorrect API key provided"}

(***************************************************************************)
(* Outbound calls and responses                                            *)
(***************************************************************************)
\* One outbound call and what came back: reply is what was received (the
\* content of a chat completion, a transcript, the classifier's outcome),
\* failed says that the call raised or reported failure instead.  A repair
\* call carries the text of the previous reply as the assistant message.
\* the repair prompt sent without the first reply
ChatCall_without_context(repair, assistant, reply, failed) ==
    [op |-> "chat", repair |-> repair, assistant |-> <<>>,
     reply |-> reply, failed |-> failed]

ChatCall(repair, assistant, reply, failed) ==
    [op |-> "chat", repair |-> repair, assistant |-> assistant,
     reply |-> reply, failed |-> failed]

OtherCall(op, reply, failed) ==
    [op |-> op, repair |-> FALSE, assistant |-> <<>>,
     reply |-> reply, failed |-> failed]

NoResponse == [status |-> 0, body |-> NoValue, detail |-> <<>>]

\* return <dict>
Ok(body) == [status |-> 200, body |-> body, detail |-> <<>>]

\* raise HTTPException(status_code, detail)
HTTPException(status, detail) ==
    [status |-> status, body |-> NoValue, detail |-> detail]

(***************************************************************************)
(* Schema Validator and Clamper                                            *)
(***************************************************************************)
\* int(x) of a JSON number: truncation toward zero
IntOf(tenths) ==
    IF tenths >= 0 THEN tenths \div 10 ELSE -((-tenths) \div 10)

MinOf(a, b) == IF a <= b THEN a ELSE b
MaxOf(a, b) == IF a >= b THEN a ELSE b

\* max(0, min(100, int(x)))
ClampScore(tenths) == MaxOf(0, MinOf(100, IntOf(tenths)))

\* the last missing field reported instead of the first
FirstMissing_last(required, d) ==
    LET miss == {i \in 1..Len(required) : required[i] \notin DOMAIN d} IN
    IF miss = {} THEN ""
    ELSE required[CHOOSE i \in miss : \A j \in miss : i >= j]

\* for field in required_fields: if field not in result: raise ValueError
\* "" when no field is missing
FirstMissing(required, d) ==
    LET miss == {i \in 1..Len(required) : required[i] \notin DOMAIN d} IN
    IF miss = {} THEN ""
    ELSE required[CHOOSE i \in miss : \A j \in miss : i <= j]

ValidCategories == {"safe", "suspicious", "scam_likely"}

\* the category passed through as received
NormalizeCategory_kept(c) == c

NormalizeCategory(c) == IF c \notin ValidCategories THEN "suspicious" ELSE c

(***************************************************************************)
(* Text endpoint                                                           *)
(***************************************************************************)
get_mock_response ==
    [ai_score |-> 0,
     risk_score |-> 0,
     category |-> "safe",
     flags |-> <<>>,
     explanation |-> "Analysis unavailable: OpenAI API key not configured. Please add OPENAI_API_KEY to your .env file to enable real analysis.",
     recommended_action |-> "Configure the API key to get actual analysis results.",
     suggested_reply |-> "Unable to generate - API key missing."]

\* A JSON value that is no object (a string) is carried as a dict with the
\* one key nonobject, which no field test finds: isinstance(x, dict) is
\* IsDict.
NonObject == [nonobject |-> "str"]
IsDict(x) == "nonobject" \notin DOMAIN x

TextRequired ==
    <<"ai_score", "risk_score", "category", "flags", "explanation",
      "recommended_action", "suggested_reply">>

TextBase ==
    [ai_score |-> 507, risk_score |-> 507, category |-> "suspicious",
     flags |-> <<"love_bombing">>, explanation |-> "e",
     recommended_action |-> "r", suggested_reply |-> "s"]

\* Parsed text replies: scores and categories, the base reply with one
\* required field left out, and with two left out.
TextValues ==
    { [TextBase EXCEPT !.ai_score = p[1], !.risk_score = p[2], !.category = c] :
        p \in ScorePairs, c \in CategoryValues }
    \cup { DictPop(TextBase, TextRequired[i]) : i \in 1..Len(TextRequired) }
    \cup { DictPop(DictPop(TextBase, "flags"), "risk_score"), NonObject }

\* the credential check left out: every request goes on to the oracle
NoCredential_unchecked(s) == FALSE

\* if not settings.openai_api_key
NoCredential(s) == s.openai_api_key = ""

\* analyze_text before the oracle client: the response it ends with, or
\* NoResponse when the request goes on to the oracle
TextGate(r, s) ==
    IF Strip(r.text) = <<>>
    THEN HTTPException(400, <<"Text cannot be empty">>)
    ELSE IF NoCredential(s) THEN Ok(get_mock_response)
    ELSE NoResponse

\* analyze_text, after the oracle client returned: validate and normalize
ValidateText(d) ==
    LET missing == FirstMissing(TextRequired, d) IN
    IF missing # ""
    THEN HTTPException(500, <<"Analysis failed: ", "Missing field: ", missing>>)
    ELSE Ok([d EXCEPT !.category = NormalizeCategory(d.category),
                      !.ai_score = ClampScore(d.ai_score),
                      !.risk_score = ClampScore(d.risk_score)])

(***************************************************************************)
(* Image endpoint: mock result, confidence band, Stage A                   *)
(***************************************************************************)
None == "<None>"

get_image_mock_response ==
    [catfish_score |-> 0,
     ai_generated_score |-> 0,
     confidence_band |-> "uncertain",
     top_signals |-> <<>>,
     flags |-> <<"vision_unavailable">>,
     explanation |-> <<"Image analysis unavailable: OpenAI API key not configured or vision model not accessible. Please add OPENAI_API_KEY to your .env file.">>,
     ai_detection_rationale |-> <<"Cannot analyze - API key missing.">>,
     recommended_action |-> "Configure the API key for real analysis. In the meantime, manually reverse image search this photo using Google Images or TinEye.",
     reverse_search_steps |->
        <<"Save or screenshot the image",
          "Go to images.google.com and click the camera icon",
          "Upload the image or drag it into the search box",
          "Review results to see if this photo appears elsewhere with different names",
          "Try TinEye.com as an additional reverse image search">>,
     signal_count |-> 0,
     escalation_applied |-> FALSE,
     aiornot |-> [available |-> FALSE, verdict |-> None,
                  ai_confidence |-> None, generator |-> None,
                  generator_confidence |-> None, deepfake_detected |-> None,
                  nsfw_detected |-> None, quality_passed |-> None,
                  error |-> "API keys not configured"]]

\* the boundaries taken as exclusive
get_confidence_band_exclusive(score) ==
    IF score < 20 THEN "likely_real"
    ELSE IF score < 40 THEN "low_suspicion"
    ELSE IF score < 60 THEN "uncertain"
    ELSE IF score < 80 THEN "likely_ai"
    ELSE "strong_ai_indicators"

get_confidence_band(score) ==
    IF score <= 20 THEN "likely_real"
    ELSE IF score <= 40 THEN "low_suspicion"
    ELSE IF score <= 60 THEN "uncertain"
    ELSE IF score <= 80 THEN "likely_ai"
    ELSE "strong_ai_indicators"

\* sum(1 for s in top_signals if s.get("severity") == sev)
SeverityCount(signals, sev) ==
    Cardinality({i \in 1..Len(signals) :
                    DictGet(signals[i], "severity", None) = sev})

\* sum(1 for cat, score in category_scores.items() if score >= 5)
CategoriesWithSignals(category_scores) ==
    Cardinality({c \in DOMAIN category_scores : category_scores[c] >= 50})

\* s.get(...) on an entry that is no dict raises AttributeError
CalibrateRaises(d) ==
    \E i \in 1..Len(DictGet(d, "top_signals", <<>>)) :
        ~IsDict(DictGet(d, "top_signals", <<>>)[i])

\* Stage A rules 1 to 3, each on the previous one's output:
\* <<score, escalation_applied>>
Rule1(score, category_scores) ==
    IF CategoriesWithSignals(category_scores) >= 3
    THEN <<MinOf(100, score + 15), MinOf(100, score + 15) > score>>
    ELSE <<score, FALSE>>

\* rule 2 setting the score to 70 instead of raising it to 70
Rule2_sets_seventy(score, top_signals) ==
    IF SeverityCount(top_signals, "high") >= 2
    THEN <<70, 70 > score>>
    ELSE <<score, FALSE>>

Rule2(score, top_signals) ==
    IF SeverityCount(top_signals, "high") >= 2
    THEN <<MaxOf(score, 70), MaxOf(score, 70) > score>>
    ELSE <<score, FALSE>>

\* rule 3 with a strict threshold
Rule3_strict_threshold(score, category_scores) ==
    IF DictGet(category_scores, "structure", 0) > 200
    THEN <<MaxOf(score, 75), MaxOf(score, 75) > score>>
    ELSE <<score, FALSE>>

Rule3(score, category_scores) ==
    IF DictGet(category_scores, "structure", 0) >= 200
    THEN <<MaxOf(score, 75), MaxOf(score, 75) > score>>
    ELSE <<score, FALSE>>

\* "Update the result": score and escalation are what the rules left
UpdateResult(d, score, escalation_applied) ==
    [k \in (DOMAIN d) \cup {"ai_generated_score", "escalation_applied",
                           "confidence_band", "signal_count"} |->
        IF k = "ai_generated_score" THEN MinOf(100, MaxOf(0, score))
        ELSE IF k = "escalation_applied"
        THEN escalation_applied \/ DictGet(d, "escalation_applied", FALSE)
        ELSE IF k = "confidence_band"
        THEN get_confidence_band(MinOf(100, MaxOf(0, score)))
        ELSE IF k = "signal_count" THEN Len(DictGet(d, "top_signals", <<>>))
        ELSE d[k]]

\* the three rules in sequence: <<score, escalation_applied>>
Escalate(ai_score, top_signals, category_scores) ==
    LET r1 == Rule1(ai_score, category_scores)
        r2 == Rule2(r1[1], top_signals)
        r3 == Rule3(r2[1], category_scores)
    IN <<r3[1], r1[2] \/ r2[2] \/ r3[2]>>

StageA(d, escalated) == UpdateResult(d, escalated[1], escalated[2])

calibrate_ai_score(d) ==
    StageA(d, Escalate(DictGet(d, "ai_generated_score", 0),
                       DictGet(d, "top_signals", <<>>),
                       DictGet(d, "category_scores", <<>>)))

(***************************************************************************)
(* Image endpoint: the classifier call and Stage B                         *)
(***************************************************************************)
\* Confidences the model draws from: 0.00 .. 1.00, and -0.5 and 1.5 as
\* values outside the documented range.  The float tables below cover this
\* domain.
ConfidenceDomain == {-50, 150} \cup (0..100)

\* int(n / d): truncation toward zero
TruncDiv(n, d) == IF n >= 0 THEN n \div d ELSE -((-n) \div d)

\* int(confidence * 100) in double precision: the product falls just below
\* the integer for 0.29, 0.57 and 0.58
IntTimes100(conf) == IF conf \in {29, 57, 58} THEN conf - 1 ELSE conf

\* int(confidence * 80): exact on the domain
IntTimes80(conf) == TruncDiv(conf * 80, 100)

\* int(a * 0.6 + g * 0.4) in double precision: for these <<a, g>> the sum
\* falls just below the integer it equals in exact arithmetic
Low60_40 ==
    { <<72, 2>>, <<72, 7>>, <<77, 2>>, <<77, 7>>, <<82, 2>>, <<82, 7>>,
      <<87, 2>>, <<87, 7>>, <<92, 2>>, <<92, 7>>, <<96, 1>>, <<96, 6>>,
      <<96, 11>>, <<96, 16>>, <<97, 2>>, <<97, 7>> }

Blend60_40(a, g) ==
    TruncDiv(6 * a + 4 * g, 10) - (IF <<a, g>> \in Low60_40 THEN 1 ELSE 0)

\* int(a * 0.4 + g * 0.6) in double precision, likewise
Low40_60 ==
    { <<1, 6>>, <<1, 31>>, <<1, 36>>, <<1, 41>>, <<1, 46>>, <<1, 51>>,
      <<1, 96>>, <<2, 12>>, <<2, 57>>, <<2, 62>>, <<2, 67>>, <<2, 72>>,
      <<2, 77>>, <<2, 82>>, <<2, 87>>, <<2, 92>>, <<2, 97>>, <<3, 48>>,
      <<4, 24>>, <<6, 96>>, <<7, 57>>, <<7, 62>>, <<7, 67>>, <<7, 72>>,
      <<7, 77>>, <<7, 82>>, <<7, 87>>, <<7, 92>>, <<7, 97>>, <<8, 48>>,
      <<11, 96>>, <<16, 96>> }

Blend40_60(a, g) ==
    TruncDiv(4 * a + 6 * g, 10) - (IF <<a, g>> \in Low40_60 THEN 1 ELSE 0)

Abs(x) == IF x >= 0 THEN x ELSE -x

\* <<combined_score, was_boosted>>
\* Stage B without the availability guard: an unavailable outcome is
\* blended with its defaults
combine_ai_scores_unguarded(gpt_score, r) ==
    LET aiornot_confidence == DictGet(r, "ai_confidence", 0)
        aiornot_score == IntTimes100(aiornot_confidence)
        aiornot_verdict == DictGet(r, "verdict", "human")
    IN
    IF aiornot_verdict = "ai" /\ aiornot_confidence >= 70
    THEN LET combined == MaxOf(Blend60_40(aiornot_score, gpt_score),
                               IntTimes80(aiornot_confidence))
         IN <<combined, combined > gpt_score>>
    ELSE IF aiornot_verdict = "human" /\ aiornot_confidence <= 30
    THEN <<Blend40_60(aiornot_score, gpt_score), FALSE>>
    ELSE LET average == TruncDiv(aiornot_score + gpt_score, 2)
             combined == IF Abs(aiornot_score - gpt_score) > 40
                         THEN MaxOf(aiornot_score, gpt_score) - 10
                         ELSE average
         IN <<MaxOf(0, MinOf(100, combined)), combined > gpt_score>>

\* Stage B without the minimum taken from the classifier's confidence
combine_ai_scores_without_floor(gpt_score, r) ==
    IF ~DictGet(r, "available", FALSE) THEN <<gpt_score, FALSE>>
    ELSE
    LET aiornot_confidence == DictGet(r, "ai_confidence", 0)
        aiornot_score == IntTimes100(aiornot_confidence)
        aiornot_verdict == DictGet(r, "verdict", "human")
    IN
    IF aiornot_verdict = "ai" /\ aiornot_confidence >= 70
    THEN LET combined == Blend60_40(aiornot_score, gpt_score)
         IN <<combined, combined > gpt_score>>
    ELSE IF aiornot_verdict = "human" /\ aiornot_confidence <= 30
    THEN <<Blend40_60(aiornot_score, gpt_score), FALSE>>
    ELSE LET average == TruncDiv(aiornot_score + gpt_score, 2)
             combined == IF Abs(aiornot_score - gpt_score) > 40
                         THEN MaxOf(aiornot_score, gpt_score) - 10
                         ELSE average
         IN <<MaxOf(0, MinOf(100, combined)), combined > gpt_score>>

\* Stage B with the disagreement penalty from a difference of 30
combine_ai_scores_penalty_at_30(gpt_score, r) ==
    IF ~DictGet(r, "available", FALSE) THEN <<gpt_score, FALSE>>
    ELSE
    LET aiornot_confidence == DictGet(r, "ai_confidence", 0)
        aiornot_score == IntTimes100(aiornot_confidence)
        aiornot_verdict == DictGet(r, "verdict", "human")
    IN
    IF aiornot_verdict = "ai" /\ aiornot_confidence >= 70
    THEN LET combined == MaxOf(Blend60_40(aiornot_score, gpt_score),
                               IntTimes80(aiornot_confidence))
         IN <<combined, combined > gpt_score>>
    ELSE IF aiornot_verdict = "human" /\ aiornot_confidence <= 30
    THEN <<Blend40_60(aiornot_score, gpt_score), FALSE>>
    ELSE LET average == TruncDiv(aiornot_score + gpt_score, 2)
             combined == IF Abs(aiornot_score - gpt_score) > 30
                         THEN MaxOf(aiornot_score, gpt_score) - 10
                         ELSE average
         IN <<MaxOf(0, MinOf(100, combined)), combined > gpt_score>>

combine_ai_scores(gpt_score, r) ==
    IF ~DictGet(r, "available", FALSE) THEN <<gpt_score, FALSE>>
    ELSE
    LET aiornot_confidence == DictGet(r, "ai_confidence", 0)
        aiornot_score == IntTimes100(aiornot_confidence)
        aiornot_verdict == DictGet(r, "verdict", "human")
    IN
    IF aiornot_verdict = "ai" /\ aiornot_confidence >= 70
    THEN LET combined == MaxOf(Blend60_40(aiornot_score, gpt_score),
                               IntTimes80(aiornot_confidence))
         IN <<combined, combined > gpt_score>>
    ELSE IF aiornot_verdict = "human" /\ aiornot_confidence <= 30
    THEN <<Blend40_60(aiornot_score, gpt_score), FALSE>>
    ELSE LET average == TruncDiv(aiornot_score + gpt_score, 2)
             combined == IF Abs(aiornot_score - gpt_score) > 40
                         THEN MaxOf(aiornot_score, gpt_score) - 10
                         ELSE average
         IN <<MaxOf(0, MinOf(100, combined)), combined > gpt_score>>

\* What analyze_image_bytes does once it holds the key: it returns an
\* AIOrNotResult or raises.  AIOrNotAPIError carries e.message; any other
\* exception is reported by str(e).
ClassifierErrors ==
    { "API request timed out after 60 seconds",
      "Failed to connect to AI or Not API: ...",
      "Unauthorized - invalid or missing API key",
      "API returned status code 418",
      "Failed to parse API response as JSON: ...",
      "'list' object has no attribute 'get'" }

ClassifierVerdicts ==
    [verdict : {"ai", "human"},
     ai_confidence : {-50, 10, 30, 50, 70, 90, 150},
     generator : {None},
     generator_confidence : {None},
     deepfake_detected : {FALSE},
     nsfw_detected : {FALSE},
     quality_passed : {TRUE}]
    \cup
    [verdict : {"ai", "human"},
     ai_confidence : {90},
     generator : {"Flux"},
     generator_confidence : {80},
     deepfake_detected : BOOLEAN,
     nsfw_detected : BOOLEAN,
     quality_passed : {TRUE}]
    \cup
    \* a verdict given as a string: lower-cased, confidence 1.0 for ai and
    \* 0.0 for any other
    [verdict : {"unknown"},
     ai_confidence : {0},
     generator : {None},
     generator_confidence : {None},
     deepfake_detected : {FALSE},
     nsfw_detected : {FALSE},
     quality_passed : {TRUE}]

Unavailable(error) == [available |-> FALSE, error |-> error]

Available(v) ==
    [available |-> TRUE, verdict |-> v.verdict,
     ai_confidence |-> v.ai_confidence, generator |-> v.generator,
     generator_confidence |-> v.generator_confidence,
     deepfake_detected |-> v.deepfake_detected,
     nsfw_detected |-> v.nsfw_detected,
     quality_passed |-> v.quality_passed, error |-> None]

\* aiornot.get_api_key: os.getenv("AIORNOT_API_KEY", ""), refused when empty
get_api_key_raises(env) == env = Absent \/ env = ""

\* call_aiornot_api, the finally block: the environment after the call
RestoreEnviron(original) ==
    IF original # Absent /\ original # "" THEN original ELSE Absent

(***************************************************************************)
(* Image endpoint: the oracle's reply and the assembly of the result       *)
(***************************************************************************)
ImageRequired ==
    <<"catfish_score", "ai_generated_score", "flags", "explanation",
      "recommended_action", "reverse_search_steps">>

\* The weight of a signal is the one value float() is applied to, so it is
\* carried with its JSON type: a number (in hundredths), a string, null.
JsonNumber(n) == [number |-> n]
JsonString(str) == [string |-> str]
JsonNull == [null |-> TRUE]

Signal(severity) ==
    [category |-> "texture", signal |-> "hyper_smooth_skin",
     description |-> <<"d">>, weight |-> JsonNumber(50), severity |-> severity]

\* a signal whose weight is w
WeightedSignal(w) == [Signal("low") EXCEPT !.weight = w]

ImageBase ==
    [catfish_score |-> 507, ai_generated_score |-> 507, flags |-> <<>>,
     explanation |-> <<"e">>, recommended_action |-> "r",
     reverse_search_steps |-> <<"s1">>]

\* Evidence the oracle may add to its reply: top_signals, category_scores
\* (in tenths), each possibly left out.
Evidence ==
    { <<>>,
      [top_signals |-> <<>>,
       category_scores |-> [texture |-> 80, structure |-> 60, lighting |-> 60]],
      [top_signals |-> <<Signal("high"), Signal("high")>>,
       category_scores |-> [texture |-> 40]],
      [top_signals |-> <<Signal("medium")>>,
       category_scores |-> [structure |-> 200]],
      [top_signals |-> <<Signal("high"), Signal("low"), Signal("high")>>,
       category_scores |-> [texture |-> 80, structure |-> 250, lighting |-> 60]],
      [top_signals |-> <<Signal("low"), NonObject>>],
      [top_signals |-> <<WeightedSignal(JsonString("0.5"))>>],
      [top_signals |-> <<Signal("low"), WeightedSignal(JsonString("high"))>>],
      [top_signals |-> <<WeightedSignal(JsonNull), Signal("low")>>] }

Merge(d, e) ==
    [k \in (DOMAIN d) \cup (DOMAIN e) |-> IF k \in DOMAIN e THEN e[k] ELSE d[k]]

\* Parsed image replies: every score with every evidence, the oracle's own
\* flags, band and escalation mark, and the base reply with one required
\* field left out.
ImageValues ==
    { Merge([ImageBase EXCEPT !.ai_generated_score = a], e) :
        a \in ScoreValues, e \in Evidence }
    \cup { [ImageBase EXCEPT !.catfish_score = c] : c \in ScoreValues }
    \cup { Merge(ImageBase, [escalation_applied |-> TRUE,
                             confidence_band |-> "strong_ai_indicators",
                             signal_count |-> 7]),
           [ImageBase EXCEPT !.flags = <<"deepfake_detected">>],
           [ImageBase EXCEPT !.flags = <<"nsfw_content", "stock_photo">>] }
    \cup { DictPop(ImageBase, ImageRequired[i]) : i \in 1..Len(ImageRequired) }
    \cup { DictPop(DictPop(ImageBase, "explanation"), "ai_generated_score"),
            NonObject }

\* str.upper() on the verdicts the classifier client returns
Upper(verdict) ==
    CASE verdict = "ai" -> "AI"
      [] verdict = "human" -> "HUMAN"
      [] verdict = "unknown" -> "UNKNOWN"

Truthy(v) == v # None /\ v # ""

\* the signal analyze_image synthesizes from the classifier's verdict
aiornot_signal(r) ==
    [category |-> "ml_detection",
     signal |-> "aiornot_ai_detected",
     description |->
        <<"AI or Not API detected AI-generated image with ",
          ToString(IntTimes100(DictGet(r, "ai_confidence", 0))),
          "% confidence">>
        \o (IF Truthy(DictGet(r, "generator", None))
            THEN <<" (Generator: ", r.generator, ")">> ELSE <<>>),
     weight |-> JsonNumber(DictGet(r, "ai_confidence", 0)),
     severity |-> IF DictGet(r, "ai_confidence", 0) >= 70
                  THEN "high" ELSE "medium"]

\* float(w): a number is kept, a string is parsed as a number or refused
\* with ValueError, None is refused with TypeError
FloatRaises(w) ==
    \/ "null" \in DOMAIN w
    \/ "string" \in DOMAIN w /\ w.string # "0.5"

Float(w) ==
    IF "number" \in DOMAIN w THEN w.number
    ELSE IF w.string = "0.5" THEN 50
    ELSE 0

\* str(e) of the exception float(w) raises
StrFloatError(w) ==
    IF "null" \in DOMAIN w
    THEN <<"float() argument must be a string or a real number, not 'NoneType'">>
    ELSE <<"could not convert string to float: ", "'", w.string, "'">>

\* "Ensure top_signals have proper structure"
validated_signal(sig) ==
    [category |-> DictGet(sig, "category", "unknown"),
     signal |-> DictGet(sig, "signal", "unknown"),
     description |-> DictGet(sig, "description", <<>>),
     weight |-> Float(DictGet(sig, "weight", JsonNumber(0))),
     severity |-> DictGet(sig, "severity", "low")]

\* the entries of a signal list whose weight float() refuses
Unconvertible(signals) ==
    {i \in 1..Len(signals) :
        IsDict(signals[i])
            /\ FloatRaises(DictGet(signals[i], "weight", JsonNumber(0)))}

\* the loop over top_signals raises at the first such entry
ValidateRaises(g) == Unconvertible(DictGet(g, "top_signals", <<>>)) # {}

StrValidateError(g) ==
    LET signals == DictGet(g, "top_signals", <<>>)
        first == CHOOSE i \in Unconvertible(signals) :
                    \A j \in Unconvertible(signals) : i <= j
    IN StrFloatError(signals[first].weight)

validated_signals(signals) ==
    LET kept == SelectSeq(signals, IsDict) IN
    [i \in 1..Len(kept) |-> validated_signal(kept[i])]

\* the aiornot entry of the result
aiornot_summary_dict(r) ==
    [available |-> DictGet(r, "available", FALSE),
     verdict |-> DictGet(r, "verdict", None),
     ai_confidence |-> DictGet(r, "ai_confidence", None),
     generator |-> DictGet(r, "generator", None),
     generator_confidence |-> DictGet(r, "generator_confidence", None),
     deepfake_detected |-> DictGet(r, "deepfake_detected", None),
     nsfw_detected |-> DictGet(r, "nsfw_detected", None),
     quality_passed |-> DictGet(r, "quality_passed", None),
     error |-> DictGet(r, "error", None)]

\* the text appended to ai_detection_rationale
aiornot_summary(r) ==
    <<"\n\nAI or Not API: ", Upper(DictGet(r, "verdict", "unknown")), " (",
      ToString(IntTimes100(DictGet(r, "ai_confidence", 0))), "% confidence)">>
    \o (IF Truthy(DictGet(r, "generator", None))
        THEN <<", Generator: ", r.generator>> ELSE <<>>)

\* The steps of analyze_image from the combination of the two scores to
\* the return, in the order of the code; g is gpt_result, r aiornot_result.

\* escalation marked whatever was_boosted says
ApplyCombined_always_boosted(g, combined) ==
    [g EXCEPT !.ai_generated_score = combined[1],
              !.confidence_band = get_confidence_band(combined[1]),
              !.escalation_applied = TRUE]

\* "Combine GPT and AI or Not scores": combined is <<score, was_boosted>>
ApplyCombined(g, combined) ==
    [g EXCEPT !.ai_generated_score = combined[1],
              !.confidence_band = get_confidence_band(combined[1]),
              !.escalation_applied = IF combined[2] THEN TRUE ELSE @]

\* the synthesized signal put after the oracle's signals
AddAiornotSignal_appended(g, r) ==
    IF DictGet(r, "available", FALSE) /\ DictGet(r, "verdict", None) = "ai"
    THEN DictSet(g, "top_signals",
                 DictGet(g, "top_signals", <<>>) \o <<aiornot_signal(r)>>)
    ELSE g

\* "Add AI or Not specific signals to top_signals if it detected AI"
AddAiornotSignal(g, r) ==
    IF DictGet(r, "available", FALSE) /\ DictGet(r, "verdict", None) = "ai"
    THEN DictSet(g, "top_signals",
                 <<aiornot_signal(r)>> \o DictGet(g, "top_signals", <<>>))
    ELSE g

\* "Add deepfake flag if detected"
AddDeepfakeFlag(g, r) ==
    IF DictGet(r, "available", FALSE) /\ r.deepfake_detected
    THEN [g EXCEPT !.flags = Append(@, "deepfake_detected")]
    ELSE g

\* "Add NSFW flag if detected"
AddNsfwFlag(g, r) ==
    IF DictGet(r, "available", FALSE) /\ r.nsfw_detected
    THEN [g EXCEPT !.flags = Append(@, "nsfw_content")]
    ELSE g

\* "Ensure new fields have defaults if missing" (confidence_band,
\* signal_count and escalation_applied are set by calibrate_ai_score)
AddDefaults(g) ==
    [k \in (DOMAIN g) \cup {"top_signals", "ai_detection_rationale"} |->
        IF k \in DOMAIN g THEN g[k]
        ELSE IF k = "top_signals" THEN <<>>
        ELSE DictGet(g, "explanation", <<>>)]

\* "Ensure top_signals have proper structure"
ValidateSignals(g) ==
    [g EXCEPT !.top_signals = validated_signals(@)]

\* "Add AI or Not result to response", "Update rationale to include AI or
\* Not info", "Remove category_scores from response"
AddAiornotResult(g, r) ==
    [k \in ((DOMAIN g) \cup {"aiornot"}) \ {"category_scores"} |->
        IF k = "aiornot" THEN aiornot_summary_dict(r)
        ELSE IF k = "ai_detection_rationale" /\ DictGet(r, "available", FALSE)
        THEN g[k] \o aiornot_summary(r)
        ELSE g[k]]

CombineAndAssemble(g, r) ==
    AddAiornotResult(
        ValidateSignals(
            AddDefaults(
                AddNsfwFlag(
                    AddDeepfakeFlag(
                        AddAiornotSignal(
                            ApplyCombined(g,
                                combine_ai_scores(g.ai_generated_score, r)),
                            r),
                        r),
                    r))),
        r)

\* the credential looked at before the payload
ImageGate_credential_first(r, s) ==
    IF NoCredential(s) THEN Ok(get_image_mock_response)
    ELSE IF r.size = 0 THEN HTTPException(400, <<"Empty image file">>)
    ELSE IF r.size > MaxImageBytes
    THEN HTTPException(400, <<"Image too large (max 10MB)">>)
    ELSE NoResponse

\* analyze_image before the oracle client
ImageGate(r, s) ==
    IF r.size = 0 THEN HTTPException(400, <<"Empty image file">>)
    ELSE IF r.size > MaxImageBytes
    THEN HTTPException(400, <<"Image too large (max 10MB)">>)
    ELSE IF NoCredential(s) THEN Ok(get_image_mock_response)
    ELSE NoResponse

\* "Ensure GPT scores are in range"
ClampImageScores(g) ==
    [g EXCEPT !.catfish_score = ClampScore(@),
              !.ai_generated_score = ClampScore(@)]

\* analyze_image after calibrate_ai_score: the result, or the error of the
\* signal loop (g is the calibrated reply)
AssembleCalibrated(g, r) ==
    IF ValidateRaises(g)
    THEN HTTPException(500,
            <<"Image analysis failed: ">> \o StrValidateError(g))
    ELSE Ok(CombineAndAssemble(g, r))

\* calibrate_ai_score and everything after it (g holds clamped scores)
CalibrateAndAssemble(g, r) ==
    IF CalibrateRaises(g)
    THEN HTTPException(500,
            <<"Image analysis failed: ", "'str' object has no attribute 'get'">>)
    ELSE AssembleCalibrated(calibrate_ai_score(g), r)

\* analyze_image, after both calls returned
AssembleImage(gpt_result, r) ==
    IF FirstMissing(ImageRequired, gpt_result) # ""
    THEN HTTPException(500,
            <<"Image analysis failed: ", "Missing field: ",
              FirstMissing(ImageRequired, gpt_result)>>)
    ELSE CalibrateAndAssemble(ClampImageScores(gpt_result), r)

(***************************************************************************)
(* Audio endpoint                                                          *)
(***************************************************************************)
get_audio_mock_response ==
    [risk_score |-> 0,
     category |-> "safe",
     flags |-> <<"api_unavailable">>,
     explanation |-> "Audio analysis unavailable: OpenAI API key not configured. Please add OPENAI_API_KEY to your .env file.",
     recommended_action |-> "Configure the API key for real analysis.",
     suggested_reply |-> "Unable to generate - API key missing.",
     ai_voice_score |-> 0,
     ai_voice_rationale |-> "Cannot assess AI voice without API key.",
     transcript |-> <<"Transcription unavailable without API key.">>]

no_speech_result ==
    [risk_score |-> 0,
     category |-> "safe",
     flags |-> <<"no_speech_detected">>,
     explanation |-> "No speech was detected in the audio recording.",
     recommended_action |-> "Try recording again with clearer audio.",
     suggested_reply |-> "Could you send that voice note again? I had trouble hearing it.",
     ai_voice_score |-> 0,
     ai_voice_rationale |-> "Cannot assess - no speech detected.",
     transcript |-> <<>>]

AudioRequired ==
    <<"risk_score", "category", "flags", "explanation", "recommended_action",
      "suggested_reply", "ai_voice_score", "ai_voice_rationale">>

AudioBase ==
    [risk_score |-> 507, category |-> "suspicious", flags |-> <<"urgency">>,
     explanation |-> "e", recommended_action |-> "r", suggested_reply |-> "s",
     ai_voice_score |-> 507, ai_voice_rationale |-> "v"]

AudioValues ==
    { [AudioBase EXCEPT !.risk_score = p[1], !.ai_voice_score = p[2],
                        !.category = c] :
        p \in ScorePairs, c \in CategoryValues }
    \cup { DictPop(AudioBase, AudioRequired[i]) : i \in 1..Len(AudioRequired) }
    \cup { DictPop(DictPop(AudioBase, "ai_voice_score"), "category"),
            NonObject }

\* what the speech-to-text oracle may return
Transcripts == {<<>>, <<" ", "\n">>, <<"a">>, <<"a", " ", "a", "\n">>}

\* analyze_audio before the temporary file
AudioGate(r, s) ==
    IF r.size = 0 THEN HTTPException(400, <<"Empty audio file">>)
    ELSE IF r.size > MaxAudioBytes
    THEN HTTPException(400, <<"Audio too large (max 25MB)">>)
    ELSE IF NoCredential(s) THEN Ok(get_audio_mock_response)
    ELSE NoResponse

\* only the empty transcript counted as blank
IsBlankTranscript_empty_only(t) == t = <<>>

\* if not transcript or not transcript.strip()
IsBlankTranscript(t) == t = <<>> \/ Strip(t) = <<>>

\* analyze_audio, after analyze_audio_transcript returned
ValidateAudio(d, t) ==
    LET withTranscript == DictSet(d, "transcript", t)
        missing == FirstMissing(AudioRequired, withTranscript)
    IN
    IF ~IsDict(d)
    THEN \* result["transcript"] = transcript raises TypeError
         HTTPException(500,
            <<"Audio analysis failed: ",
              "'str' object does not support item assignment">>)
    ELSE IF missing # ""
    THEN HTTPException(500,
            <<"Audio analysis failed: ", "Missing field: ", missing>>)
    ELSE Ok([withTranscript EXCEPT
                !.category = NormalizeCategory(withTranscript.category),
                !.risk_score = ClampScore(withTranscript.risk_score),
                !.ai_voice_score = ClampScore(withTranscript.ai_voice_score)])

\* Temporary files: NamedTemporaryFile(suffix='.webm') picks a name that is
\* not on disk; output_path is that name with .webm replaced by .wav.
TmpFile(stem, suffix) == <<stem, suffix>>

FreeStems(d) == {n \in 1..MaxTmpFiles : TmpFile(n, ".webm") \notin d}

NewStem(d) == CHOOSE n \in FreeStems(d) : \A m \in FreeStems(d) : n <= m

\* the finally block of analyze_audio: unlink both paths if they exist
Cleanup(d, paths) == d \ {paths.input, paths.output}

\* str(e) of an HTTPException: "<status_code>: <detail>"
StrHTTPException(e) == <<ToString(e.status), ": ">> \o e.detail

(***************************************************************************)
(* The state machine                                                       *)
(***************************************************************************)
NoPaths == [input |-> <<0, "">>, output |-> <<0, "">>]

Init ==
    /\ settings \in Settings
    /\ environ \in {Absent, "", AIOrNotKey}
    /\ environ = AIOrNotKey => settings.aiornot_api_key = AIOrNotKey
    /\ disk = {}
    /\ created = {}
    /\ req = NoRequest
    /\ pc = "idle"
    /\ content = NoContent
    /\ result = NoValue
    /\ aiornot_result = NoValue
    /\ transcript = <<>>
    /\ tmp = NoPaths
    /\ original_key = Absent
    /\ calls = <<>>
    /\ response = NoResponse

\* A request arrives; the previous one, if any, has been answered.
Receive ==
    /\ pc \in {"idle", "done"}
    /\ \E r \in Requests :
            /\ r.kind = "audio" => FreeStems(disk) # {}
            /\ req' = r
    /\ created' = {}
    /\ pc' = "start"
    /\ content' = NoContent
    /\ result' = NoValue
    /\ aiornot_result' = NoValue
    /\ transcript' = <<>>
    /\ tmp' = NoPaths
    /\ original_key' = Absent
    /\ calls' = <<>>
    /\ response' = NoResponse
    /\ UNCHANGED <<settings, environ, disk>>

\* The request ends with response r; the handler's locals die.
Return(r) ==
    /\ response' = r
    /\ pc' = "done"
    /\ content' = NoContent
    /\ result' = NoValue
    /\ aiornot_result' = NoValue
    /\ transcript' = <<>>
    /\ tmp' = NoPaths
    /\ original_key' = Absent

\* analyze_text up to the oracle client: payload check, then credential
analyze_text ==
    /\ pc = "start" /\ req.kind = "text"
    /\ IF TextGate(req, settings).status # 0
       THEN Return(TextGate(req, settings))
       ELSE /\ pc' = "call1"
            /\ UNCHANGED <<content, result, aiornot_result, transcript, tmp,
                           original_key,
                           response>>
    /\ UNCHANGED <<settings, environ, disk, created, req, calls>>

\* call_openai_for_analysis, first attempt: the call raises, or a reply
\* comes back and is parsed; a reply that does not parse leads to the repair
text_first_call ==
    /\ pc = "call1" /\ req.kind = "text"
    /\ \/ \E e \in OracleErrors :
            /\ calls' = Append(calls, ChatCall(FALSE, <<>>, NoContent, TRUE))
            /\ Return(HTTPException(500, <<"Analysis failed: ", e>>))
       \/ \E c \in Contents(TextValues) :
            /\ calls' = Append(calls, ChatCall(FALSE, <<>>, c, FALSE))
            /\ IF parse_llm_response(c).ok
               THEN /\ result' = parse_llm_response(c).value
                    /\ pc' = "validate"
                    /\ UNCHANGED content
               ELSE /\ content' = c
                    /\ pc' = "call2"
                    /\ UNCHANGED result
            /\ UNCHANGED <<aiornot_result, transcript, tmp, original_key, response>>
    /\ UNCHANGED <<settings, environ, disk, created, req>>

\* call_openai_for_analysis, repair attempt: the first reply goes back as
\* the assistant message; a second parse failure is raised to analyze_text
text_repair_call ==
    /\ pc = "call2" /\ req.kind = "text"
    /\ \/ \E e \in OracleErrors :
            /\ calls' = Append(calls, ChatCall(TRUE, content.text, NoContent, TRUE))
            /\ Return(HTTPException(500, <<"Analysis failed: ", e>>))
       \/ \E c \in Contents(TextValues) :
            /\ calls' = Append(calls, ChatCall(TRUE, content.text, c, FALSE))
            /\ IF parse_llm_response(c).ok
               THEN /\ result' = parse_llm_response(c).value
                    /\ pc' = "validate"
                    /\ content' = NoContent
                    /\ UNCHANGED <<aiornot_result, transcript, tmp, original_key, response>>
               ELSE Return(HTTPException(500,
                        <<"Failed to parse AI response: ">>
                            \o StrJSONDecodeError(parse_llm_response(c))))
    /\ UNCHANGED <<settings, environ, disk, created, req>>

\* analyze_text, after the oracle client returned
text_validate ==
    /\ pc = "validate" /\ req.kind = "text"
    /\ Return(ValidateText(result))
    /\ UNCHANGED <<settings, environ, disk, created, req, calls>>

\* analyze_image up to the oracle client: payload checks, then credential
analyze_image ==
    /\ pc = "start" /\ req.kind = "image"
    /\ IF ImageGate(req, settings).status # 0
       THEN Return(ImageGate(req, settings))
       ELSE /\ pc' = "call1"
            /\ UNCHANGED <<content, result, aiornot_result, transcript, tmp,
                           original_key,
                           response>>
    /\ UNCHANGED <<settings, environ, disk, created, req, calls>>

\* call_openai_for_image_analysis, first attempt
image_first_call ==
    /\ pc = "call1" /\ req.kind = "image"
    /\ \/ \E e \in OracleErrors :
            /\ calls' = Append(calls, ChatCall(FALSE, <<>>, NoContent, TRUE))
            /\ Return(HTTPException(500, <<"Image analysis failed: ", e>>))
       \/ \E c \in Contents(ImageValues) :
            /\ calls' = Append(calls, ChatCall(FALSE, <<>>, c, FALSE))
            /\ IF parse_llm_response(c).ok
               THEN /\ result' = parse_llm_response(c).value
                    /\ pc' = "classifier"
                    /\ UNCHANGED content
               ELSE /\ content' = c
                    /\ pc' = "call2"
                    /\ UNCHANGED result
            /\ UNCHANGED <<aiornot_result, transcript, tmp, original_key, response>>
    /\ UNCHANGED <<settings, environ, disk, created, req>>

\* call_openai_for_image_analysis, repair attempt
image_repair_call ==
    /\ pc = "call2" /\ req.kind = "image"
    /\ \/ \E e \in OracleErrors :
            /\ calls' = Append(calls, ChatCall(TRUE, content.text, NoContent, TRUE))
            /\ Return(HTTPException(500, <<"Image analysis failed: ", e>>))
       \/ \E c \in Contents(ImageValues) :
            /\ calls' = Append(calls, ChatCall(TRUE, content.text, c, FALSE))
            /\ IF parse_llm_response(c).ok
               THEN /\ result' = parse_llm_response(c).value
                    /\ pc' = "classifier"
                    /\ content' = NoContent
                    /\ UNCHANGED <<aiornot_result, transcript, tmp, original_key, response>>
               ELSE Return(HTTPException(500,
                        <<"Failed to parse AI response: ">>
                            \o StrJSONDecodeError(parse_llm_response(c))))
    /\ UNCHANGED <<settings, environ, disk, created, req>>

\* call_aiornot_api up to the call: without the credential no call is made;
\* with it the key is put into the environment of the process
call_aiornot_api ==
    /\ pc = "classifier" /\ req.kind = "image"
    /\ IF settings.aiornot_api_key = ""
       THEN /\ aiornot_result' = Unavailable("AIORNOT_API_KEY not configured")
            /\ pc' = "assemble"
            /\ UNCHANGED <<environ, original_key>>
       ELSE /\ original_key' = environ
            /\ environ' = settings.aiornot_api_key
            /\ pc' = "classifier_call"
            /\ UNCHANGED aiornot_result
    /\ UNCHANGED <<settings, disk, created, req, content, result, transcript,
                   tmp, calls, response>>

\* analyze_image_bytes inside call_aiornot_api: the call returns a verdict
\* or raises, every error becomes an unavailable result, and the finally
\* block restores the environment
analyze_image_bytes ==
    /\ pc = "classifier_call" /\ req.kind = "image"
    /\ IF req.size > MaxImageBytes
       THEN /\ aiornot_result' = Unavailable("Image too large: 10.0 MB. Maximum allowed: 10 MB")
            /\ UNCHANGED calls
       ELSE IF get_api_key_raises(environ)
       THEN /\ aiornot_result' =
                Unavailable("AIORNOT_API_KEY environment variable not set. Get your API key from https://aiornot.com and set it in your .env file.")
            /\ UNCHANGED calls
       ELSE \/ \E e \in ClassifierErrors :
                /\ aiornot_result' = Unavailable(e)
                /\ calls' = Append(calls,
                        OtherCall("classifier", Unavailable(e), TRUE))
            \/ \E v \in ClassifierVerdicts :
                /\ aiornot_result' = Available(v)
                /\ calls' = Append(calls,
                        OtherCall("classifier", Available(v), FALSE))
    /\ environ' = RestoreEnviron(original_key)
    /\ pc' = "assemble"
    /\ UNCHANGED <<settings, disk, created, req, content, result, transcript,
                   tmp, original_key, response>>

\* analyze_image, after both calls returned
image_assemble ==
    /\ pc = "assemble" /\ req.kind = "image"
    /\ Return(AssembleImage(result, aiornot_result))
    /\ UNCHANGED <<settings, environ, disk, created, req, calls>>

\* An exit of analyze_audio from inside the inner try: the finally block
\* runs before the response leaves.
ReturnAfterCleanup(r) ==
    /\ Return(r)
    /\ disk' = Cleanup(disk, tmp)

\* analyze_audio up to the temporary file: payload checks, then credential
analyze_audio ==
    /\ pc = "start" /\ req.kind = "audio"
    /\ IF AudioGate(req, settings).status # 0
       THEN Return(AudioGate(req, settings))
       ELSE /\ pc' = "write"
            /\ UNCHANGED <<content, result, aiornot_result, transcript, tmp,
                           original_key,
                           response>>
    /\ UNCHANGED <<settings, environ, disk, created, req, calls>>

\* "Save audio to temp file": NamedTemporaryFile(delete=False) creates the
\* file, write() fills it, and only then input_path is assigned.  A failure
\* here is outside the inner try: no finally block runs.
audio_write ==
    /\ pc = "write" /\ req.kind = "audio"
    /\ \/ \* the file cannot be created
          /\ Return(HTTPException(500,
                <<"Audio analysis failed: ", "[Errno 13] Permission denied">>))
          /\ UNCHANGED <<disk, created>>
       \/ \* created, and write() raises
          /\ disk' = disk \cup {TmpFile(NewStem(disk), ".webm")}
          /\ created' = created \cup {TmpFile(NewStem(disk), ".webm")}
          /\ Return(HTTPException(500,
                <<"Audio analysis failed: ",
                  "[Errno 28] No space left on device">>))
       \/ \* created and written
          /\ disk' = disk \cup {TmpFile(NewStem(disk), ".webm")}
          /\ created' = created \cup {TmpFile(NewStem(disk), ".webm")}
          /\ tmp' = [input |-> TmpFile(NewStem(disk), ".webm"),
                     output |-> TmpFile(NewStem(disk), ".wav")]
          /\ pc' = "convert"
          /\ UNCHANGED <<content, result, aiornot_result, transcript,
                         original_key, response>>
    /\ UNCHANGED <<settings, environ, req, calls>>

\* convert_audio_to_wav: ffmpeg is missing, times out, or exits; the exit
\* status is returned and analyze_audio ignores it.  The HTTPException of
\* convert_audio_to_wav is caught by analyze_audio's except Exception.
audio_convert ==
    /\ pc = "convert" /\ req.kind = "audio"
    /\ \/ /\ calls' = Append(calls, OtherCall("ffmpeg", <<"missing">>, TRUE))
          /\ ReturnAfterCleanup(HTTPException(500,
                <<"Audio analysis failed: ">> \o StrHTTPException(
                    HTTPException(500, <<"ffmpeg not found. Please install ffmpeg to enable audio analysis.">>))))
          /\ UNCHANGED created
       \/ \E partial \in BOOLEAN :
          /\ calls' = Append(calls, OtherCall("ffmpeg", <<"timeout">>, TRUE))
          /\ created' = IF partial THEN created \cup {tmp.output} ELSE created
          /\ ReturnAfterCleanup(HTTPException(500,
                <<"Audio analysis failed: ">> \o StrHTTPException(
                    HTTPException(500, <<"Audio conversion timed out">>))))
       \/ \* exit status 0: the WAV file is there
          /\ calls' = Append(calls, OtherCall("ffmpeg", <<"exit 0">>, FALSE))
          /\ disk' = disk \cup {tmp.output}
          /\ created' = created \cup {tmp.output}
          /\ pc' = "transcribe"
          /\ UNCHANGED <<content, result, aiornot_result, transcript, tmp,
                           original_key,
                         response>>
       \/ \* exit status not 0: the WAV file may be there in part
          \E partial \in BOOLEAN :
          /\ calls' = Append(calls, OtherCall("ffmpeg", <<"exit 1">>, TRUE))
          /\ disk' = IF partial THEN disk \cup {tmp.output} ELSE disk
          /\ created' = IF partial THEN created \cup {tmp.output} ELSE created
          /\ pc' = "transcribe"
          /\ UNCHANGED <<content, result, aiornot_result, transcript, tmp,
                           original_key,
                         response>>
    /\ UNCHANGED <<settings, environ, req>>

\* transcribe_audio and the empty-transcript check of analyze_audio
audio_transcribe ==
    /\ pc = "transcribe" /\ req.kind = "audio"
    /\ IF tmp.output \notin disk
       THEN \* open(audio_path, 'rb') raises FileNotFoundError
            /\ ReturnAfterCleanup(HTTPException(500,
                    <<"Audio analysis failed: ",
                      "[Errno 2] No such file or directory">>))
            /\ UNCHANGED calls
       ELSE \/ \E e \in OracleErrors :
                /\ calls' = Append(calls, OtherCall("stt", <<>>, TRUE))
                /\ ReturnAfterCleanup(
                        HTTPException(500, <<"Audio analysis failed: ", e>>))
            \/ \E t \in Transcripts :
                /\ calls' = Append(calls, OtherCall("stt", t, FALSE))
                /\ IF IsBlankTranscript(t)
                   THEN ReturnAfterCleanup(Ok(no_speech_result))
                   ELSE /\ transcript' = t
                        /\ pc' = "call1"
                        /\ UNCHANGED <<content, result, aiornot_result, tmp, original_key,
                                       response, disk>>
    /\ UNCHANGED <<settings, environ, created, req>>

\* analyze_audio_transcript, first attempt
audio_first_call ==
    /\ pc = "call1" /\ req.kind = "audio"
    /\ \/ \E e \in OracleErrors :
            /\ calls' = Append(calls, ChatCall(FALSE, <<>>, NoContent, TRUE))
            /\ ReturnAfterCleanup(
                    HTTPException(500, <<"Audio analysis failed: ", e>>))
       \/ \E c \in Contents(AudioValues) :
            /\ calls' = Append(calls, ChatCall(FALSE, <<>>, c, FALSE))
            /\ IF parse_llm_response(c).ok
               THEN /\ result' = parse_llm_response(c).value
                    /\ pc' = "validate"
                    /\ UNCHANGED content
               ELSE /\ content' = c
                    /\ pc' = "call2"
                    /\ UNCHANGED result
            /\ UNCHANGED <<aiornot_result, transcript, tmp, original_key, response, disk>>
    /\ UNCHANGED <<settings, environ, created, req>>

\* analyze_audio_transcript, repair attempt
audio_repair_call ==
    /\ pc = "call2" /\ req.kind = "audio"
    /\ \/ \E e \in OracleErrors :
            /\ calls' = Append(calls, ChatCall(TRUE, content.text, NoContent, TRUE))
            /\ ReturnAfterCleanup(
                    HTTPException(500, <<"Audio analysis failed: ", e>>))
       \/ \E c \in Contents(AudioValues) :
            /\ calls' = Append(calls, ChatCall(TRUE, content.text, c, FALSE))
            /\ IF parse_llm_response(c).ok
               THEN /\ result' = parse_llm_response(c).value
                    /\ pc' = "validate"
                    /\ content' = NoContent
                    /\ UNCHANGED <<aiornot_result, transcript, tmp, original_key, response,
                                   disk>>
               ELSE ReturnAfterCleanup(HTTPException(500,
                        <<"Failed to parse AI response: ">>
                            \o StrJSONDecodeError(parse_llm_response(c))))
    /\ UNCHANGED <<settings, environ, created, req>>

\* analyze_audio, after analyze_audio_transcript returned
audio_validate ==
    /\ pc = "validate" /\ req.kind = "audio"
    /\ ReturnAfterCleanup(ValidateAudio(result, transcript))
    /\ UNCHANGED <<settings, environ, created, req, calls>>

Next ==
    \/ Receive
    \/ analyze_text
    \/ text_first_call
    \/ text_repair_call
    \/ text_validate
    \/ analyze_image
    \/ image_first_call
    \/ image_repair_call
    \/ call_aiornot_api
    \/ analyze_image_bytes
    \/ image_assemble
    \/ analyze_audio
    \/ audio_write
    \/ audio_convert
    \/ audio_transcribe
    \/ audio_first_call
    \/ audio_repair_call
    \/ audio_validate

Spec == Init /\ [][Next]_vars

(***************************************************************************)
(* The calibration engine on its own: calibrate_ai_score, then the         *)
(* combination with a classifier outcome, applied to every score of        *)
(* 0..100 as analyze_image applies them to a validated, clamped reply.     *)
(***************************************************************************)
\* top_signals of a reply: none, one, two and three with severity high
StageSignals ==
    { <<>>,
      <<Signal("high")>>,
      <<Signal("high"), Signal("high")>>,
      <<Signal("high"), Signal("medium"), Signal("high")>>,
      <<Signal("medium"), Signal("medium")>> }

\* category_scores of a reply, in tenths: two, three and four categories
\* at or just under 5 points, structure at and just under 20 points
StageCategoryScores ==
    { [texture |-> 80, structure |-> 60, lighting |-> 60],
      [texture |-> 50, structure |-> 50, lighting |-> 49],
      [texture |-> 50, structure |-> 50, lighting |-> 50, metadata |-> 10],
      [structure |-> 200],
      [structure |-> 199, texture |-> 300],
      [texture |-> 80, structure |-> 250, lighting |-> 60],
      [texture |-> 0] }

\* a validated reply after the clamp, with ai_generated_score g
ClampedReply(g) ==
    [ImageBase EXCEPT !.catfish_score = 50, !.ai_generated_score = g]

\* replies without evidence, also with a band and an escalation mark of
\* the oracle's own
PlainReplies ==
    { ClampedReply(g) : g \in 0..100 }
    \cup { Merge(ClampedReply(g),
                 [confidence_band |-> "strong_ai_indicators",
                  escalation_applied |-> FALSE]) : g \in 0..100 }

\* replies with signals and category scores
EvidenceReplies ==
    { Merge(ClampedReply(g), [top_signals |-> sig, category_scores |-> cs]) :
        g \in 0..100, sig \in StageSignals, cs \in StageCategoryScores }
    \cup { Merge(ClampedReply(100),
                 [escalation_applied |-> TRUE,
                  category_scores |-> [texture |-> 80]]) }

\* a classifier verdict with nothing but verdict and confidence
Verdict(verdict, confidence) ==
    Available([verdict |-> verdict, ai_confidence |-> confidence,
               generator |-> None, generator_confidence |-> None,
               deepfake_detected |-> FALSE, nsfw_detected |-> FALSE,
               quality_passed |-> TRUE])

\* classifier outcomes a calibrated reply is combined with: every verdict
\* and confidence for a reply without evidence, a few for the others
StageOutcomes(d) ==
    IF "category_scores" \in DOMAIN d
    THEN { Unavailable("AIORNOT_API_KEY not configured"),
           Verdict("ai", 90), Verdict("human", 10), Verdict("ai", 50) }
    ELSE { Unavailable("AIORNOT_API_KEY not configured"),
           Unavailable("API request timed out after 60 seconds") }
         \cup { Verdict(v, c) : v \in {"ai", "human"}, c \in ConfidenceDomain }
         \cup { Verdict("unknown", 0) }

StageInit ==
    /\ settings = [openai_api_key |-> OpenAIKey, aiornot_api_key |-> AIOrNotKey]
    /\ environ = Absent
    /\ disk = {}
    /\ created = {}
    /\ req = [kind |-> "image", text |-> <<>>, size |-> 1]
    /\ pc = "clamped"
    /\ content \in
          { [text |-> <<"JSON">>, value |-> d] :
                d \in PlainReplies \cup EvidenceReplies }
    /\ result = NoValue
    /\ aiornot_result = NoValue
    /\ transcript = <<>>
    /\ tmp = NoPaths
    /\ original_key = Absent
    /\ calls = <<>>
    /\ response = NoResponse

\* gpt_result = calibrate_ai_score(gpt_result)
stage_a ==
    /\ pc = "clamped"
    /\ result' = calibrate_ai_score(content.value)
    /\ pc' = "calibrated"
    /\ UNCHANGED <<settings, environ, disk, created, req, content,
                   aiornot_result, transcript, tmp, original_key, calls,
                   response>>

\* the rest of analyze_image, with one classifier outcome
stage_b ==
    /\ pc = "calibrated"
    /\ \E r \in StageOutcomes(result) :
            /\ aiornot_result' = r
            /\ response' = AssembleCalibrated(result, r)
    /\ pc' = "combined"
    /\ UNCHANGED <<settings, environ, disk, created, req, content, result,
                   transcript, tmp, original_key, calls>>

StageNext ==
    \/ stage_a
    \/ stage_b

StageSpec == StageInit /\ [][StageNext]_vars

(***************************************************************************)
(* The response normalizer alone: parse_llm_response on every reply text   *)
(* of a bounded length                                                     *)
(***************************************************************************)
MaxReplyLen == 4

\* the pieces a reply is made of: blank, line break, fence delimiter,
\* language tag, text that is no JSON, one JSON document
ReplyTokens == {" ", "\n", "FENCE", "json", "junk", "JSON"}

ReplyTexts == UNION {[1..k -> ReplyTokens] : k \in 0..MaxReplyLen}

NormalizerInit ==
    /\ settings = [openai_api_key |-> OpenAIKey, aiornot_api_key |-> ""]
    /\ environ = Absent
    /\ disk = {}
    /\ created = {}
    /\ req = [kind |-> "text", text |-> <<"a">>, size |-> 0]
    /\ pc = "reply"
    /\ content \in [text : ReplyTexts, value : {TextBase}]
    /\ result = NoValue
    /\ aiornot_result = NoValue
    /\ transcript = <<>>
    /\ tmp = NoPaths
    /\ original_key = Absent
    /\ calls = <<>>
    /\ response = NoResponse

\* parse_llm_response(content): the value, or the JSONDecodeError
normalize ==
    /\ pc = "reply"
    /\ result' = parse_llm_response(content)
    /\ pc' = "parsed"
    /\ UNCHANGED <<settings, environ, disk, created, req, content,
                   aiornot_result, transcript, tmp, original_key, calls,
                   response>>

NormalizerNext == normalize

NormalizerSpec == NormalizerInit /\ [][NormalizerNext]_vars

(***************************************************************************)
(* Properties                                                              *)
(***************************************************************************)
\* the chat completions of the request in progress, in order
ChatCalls == SelectSeq(calls, LAMBDA c : c.op = "chat")

\* the calls of one kind other than chat completions
CallsOf(op) == SelectSeq(calls, LAMBDA c : c.op = op)

\* a payload the endpoint of its kind accepts
PayloadValid(r) ==
    CASE r.kind = "text" -> \E i \in 1..Len(r.text) : r.text[i] \notin {" ", "\n"}
      [] r.kind = "image" -> r.size >= 1 /\ r.size <= 10 * 1024 * 1024
      [] r.kind = "audio" -> r.size >= 1 /\ r.size <= 25 * 1024 * 1024
      [] OTHER -> FALSE

\* the request has been answered
Answered == pc = "done"

\* the last chat completion came back and parsed to a JSON value
OracleParsed ==
    /\ ChatCalls # <<>>
    /\ ~ChatCalls[Len(ChatCalls)].failed
    /\ parse_llm_response(ChatCalls[Len(ChatCalls)].reply).ok

\* that value
OracleValue == ChatCalls[Len(ChatCalls)].reply.value

\* the fields of the required list that a parsed value lacks
MissingFields(required, d) ==
    {i \in 1..Len(required) : required[i] \notin DOMAIN d}

\* C1: with the generative-oracle credential absent, a request whose payload
\* is valid is answered with the fixed mock result of its kind, and no
\* outbound call (oracle, classifier, speech-to-text, transcoder) is made and
\* no temporary file is created.
C1_MockWithoutOutboundCall ==
    (Answered /\ settings.openai_api_key = "" /\ PayloadValid(req)) =>
        /\ calls = <<>>
        /\ created = {}
        /\ response.status = 200
        /\ CASE req.kind = "text" ->
                    /\ response.body.ai_score = 0
                    /\ response.body.risk_score = 0
                    /\ response.body.category = "safe"
                    /\ response.body.flags = <<>>
             [] req.kind = "image" ->
                    /\ response.body.catfish_score = 0
                    /\ response.body.ai_generated_score = 0
                    /\ response.body.confidence_band = "uncertain"
                    /\ response.body.flags = <<"vision_unavailable">>
                    /\ response.body.aiornot.available = FALSE
             [] req.kind = "audio" ->
                    /\ response.body.risk_score = 0
                    /\ response.body.ai_voice_score = 0
                    /\ response.body.category = "safe"
                    /\ response.body.flags = <<"api_unavailable">>
             [] OTHER -> FALSE

\* a valid audio upload answered with the mock while no credential is set
C1_Witness ==
    /\ Answered /\ settings.openai_api_key = ""
    /\ req.kind = "audio" /\ req.size = 25 * 1024 * 1024
    /\ response.status = 200
    /\ response.body.flags = <<"api_unavailable">>
    /\ calls = <<>>

\* the classifier was not consulted or its call did not produce a verdict
ClassifierDown ==
    \/ settings.aiornot_api_key = ""
    \/ /\ CallsOf("classifier") # <<>>
       /\ CallsOf("classifier")[1].failed

\* the parsed image reply passes validation, Stage A and the signal loop
ImageReplyValid ==
    /\ OracleParsed
    /\ MissingFields(ImageRequired, OracleValue) = {}
    /\ ~CalibrateRaises(ClampImageScores(OracleValue))
    /\ ~ValidateRaises(OracleValue)

\* C2: when the classifier credential is absent or the classifier call
\* raises, the image request is still answered with a result: the classifier
\* outcome is reported as available = false with an error message, and the
\* score is the Stage-A score, unchanged by Stage B.
C2_ClassifierFailureIsolated ==
    (Answered /\ req.kind = "image" /\ ImageReplyValid /\ ClassifierDown) =>
        /\ response.status = 200
        /\ response.body.aiornot.available = FALSE
        /\ response.body.aiornot.error # None
        /\ response.body.aiornot.error # ""
        /\ response.body.ai_generated_score =
              calibrate_ai_score(ClampImageScores(OracleValue)).ai_generated_score
        /\ "ml_detection" \notin
              {response.body.top_signals[i].category :
                  i \in 1..Len(response.body.top_signals)}

\* an image answered after the classifier call timed out, with a Stage-A
\* score that Stage A escalated and that is not zero
C2_Witness ==
    /\ Answered /\ req.kind = "image" /\ ImageReplyValid
    /\ CallsOf("classifier") # <<>>
    /\ CallsOf("classifier")[1].failed
    /\ response.status = 200
    /\ response.body.aiornot.error = "API request timed out after 60 seconds"
    /\ response.body.escalation_applied = TRUE
    /\ response.body.ai_generated_score > 0

\* the integer score fields of a result body
ScoreFields ==
    {"ai_score", "risk_score", "catfish_score", "ai_generated_score",
     "ai_voice_score"}

\* C3: every result returned from a live path has each of its integer score
\* fields in 0..100, whatever numbers the oracle and the classifier
\* returned, the score blended by Stage B included.
C3_ScoresInRange ==
    (Answered /\ response.status = 200 /\ calls # <<>>) =>
        \A f \in ScoreFields \cap DOMAIN response.body :
            response.body[f] \in 0..100

\* C4: a request whose payload is invalid is answered with a client error
\* and no outbound call is made, whether or not the credential is present.
C4_ValidationBeforeCredential ==
    (Answered /\ ~PayloadValid(req)) =>
        /\ response.status = 400
        /\ response.body = NoValue
        /\ calls = <<>>
        /\ created = {}

\* an image above the size limit refused although no credential is set
C4_Witness ==
    /\ Answered /\ settings.openai_api_key = ""
    /\ req.kind = "image" /\ req.size > 10 * 1024 * 1024
    /\ response.status = 400
    /\ response.detail = <<"Image too large (max 10MB)">>

\* C5: a parsed text reply that lacks required fields makes the request fail
\* with an error naming the first missing field in the order ai_score,
\* risk_score, category, flags, explanation, recommended_action,
\* suggested_reply, and no result is returned; the same reply with the
\* missing fields added validates.
C5_MissingFieldNamed ==
    (Answered /\ req.kind = "text" /\ OracleParsed
        /\ MissingFields(TextRequired, OracleValue) # {}) =>
        /\ response.status = 500
        /\ response.body = NoValue
        /\ \E i \in MissingFields(TextRequired, OracleValue) :
              /\ \A j \in MissingFields(TextRequired, OracleValue) : i <= j
              /\ response.detail =
                    <<"Analysis failed: ", "Missing field: ", TextRequired[i]>>
        /\ IsDict(OracleValue) =>
              ValidateText(Merge(TextBase, OracleValue)).status = 200

\* a text reply lacking both flags and risk_score, refused for risk_score
C5_Witness ==
    /\ Answered /\ req.kind = "text" /\ OracleParsed
    /\ MissingFields(TextRequired, OracleValue) = {2, 4}
    /\ response.status = 500
    /\ response.detail = <<"Analysis failed: ", "Missing field: ", "risk_score">>

\* the parsed text or audio reply has every required field
ReplyComplete ==
    /\ OracleParsed
    /\ \/ req.kind = "text" /\ MissingFields(TextRequired, OracleValue) = {}
       \/ /\ req.kind = "audio"
          /\ MissingFields(AudioRequired, OracleValue) = {}

\* C6: every text or audio result has a category among safe, suspicious and
\* scam_likely; a category outside this set is replaced by suspicious
\* without failing the request, and a category inside it is kept.
C6_CategoryNormalized ==
    /\ (Answered /\ req.kind \in {"text", "audio"} /\ response.status = 200) =>
            response.body.category \in {"safe", "suspicious", "scam_likely"}
    /\ (Answered /\ req.kind \in {"text", "audio"} /\ ReplyComplete) =>
            /\ response.status = 200
            /\ response.body.category =
                  IF OracleValue.category \in {"safe", "suspicious", "scam_likely"}
                  THEN OracleValue.category
                  ELSE "suspicious"

\* an audio reply with the category SCAM answered as suspicious
C6_Witness ==
    /\ Answered /\ req.kind = "audio" /\ ReplyComplete
    /\ OracleValue.category = "SCAM"
    /\ response.status = 200
    /\ response.body.category = "suspicious"

\* C7: a request sends at most two chat completions; the second is a repair
\* prompt, is sent only after a first reply that came back and did not
\* parse, and carries that reply as context; a first reply that parses is
\* never followed by another completion.
C7_AtMostOneRepair ==
    /\ Len(ChatCalls) <= 2
    /\ ChatCalls # <<>> =>
          /\ ~ChatCalls[1].repair
          /\ ChatCalls[1].assistant = <<>>
    /\ Len(ChatCalls) = 2 =>
          /\ ChatCalls[2].repair
          /\ ~ChatCalls[1].failed
          /\ ~parse_llm_response(ChatCalls[1].reply).ok
          /\ ChatCalls[2].assistant = ChatCalls[1].reply.text

\* a request answered with a result after a repair prompt that carried a
\* first reply of three tokens
C7_Witness ==
    /\ Answered /\ response.status = 200
    /\ Len(ChatCalls) = 2
    /\ ChatCalls[2].repair
    /\ Len(ChatCalls[2].assistant) = 3
    /\ parse_llm_response(ChatCalls[2].reply).ok

\* both chat completions came back and neither parsed
BothMalformed ==
    /\ Len(ChatCalls) = 2
    /\ ~ChatCalls[2].failed
    /\ ~parse_llm_response(ChatCalls[2].reply).ok

\* C8: when the first reply and the repaired reply are both malformed, the
\* request fails with a server error whose message is the prefix followed by
\* the reason reported by the JSON parser and nothing of the raw reply; no
\* result is returned.
C8_MalformedTwiceFails ==
    (Answered /\ BothMalformed) =>
        /\ response.status = 500
        /\ response.body = NoValue
        /\ Len(response.detail) = 2
        /\ response.detail[1] = "Failed to parse AI response: "
        /\ response.detail[2] \in {"Expecting value", "Extra data"}
        /\ response.detail[2] = parse_llm_response(ChatCalls[2].reply).msg

\* an image request refused after two replies that did not parse, the
\* second with text in it
C8_Witness ==
    /\ Answered /\ req.kind = "image" /\ BothMalformed
    /\ ChatCalls[2].reply.text # <<>>
    /\ response.status = 500
    /\ response.detail[1] = "Failed to parse AI response: "

\* speech-to-text returned a transcript that is empty or only whitespace
BlankTranscript ==
    /\ CallsOf("stt") # <<>>
    /\ ~CallsOf("stt")[1].failed
    /\ \A i \in 1..Len(CallsOf("stt")[1].reply) :
          CallsOf("stt")[1].reply[i] \in {" ", "\n"}

\* C9: when the transcript is empty or whitespace, the audio request is
\* answered with the fixed no-speech result (risk 0, category safe, flag
\* no_speech_detected, empty transcript) and the scoring oracle is never
\* called.
C9_NoSpeechShortCircuit ==
    (req.kind = "audio" /\ BlankTranscript) =>
        /\ ChatCalls = <<>>
        /\ pc = "done"
        /\ response.status = 200
        /\ response.body.risk_score = 0
        /\ response.body.ai_voice_score = 0
        /\ response.body.category = "safe"
        /\ response.body.flags = <<"no_speech_detected">>
        /\ response.body.transcript = <<>>

\* an audio request answered with the no-speech result after a transcript
\* of whitespace only
C9_Witness ==
    /\ Answered /\ req.kind = "audio" /\ BlankTranscript
    /\ CallsOf("stt")[1].reply # <<>>
    /\ response.status = 200
    /\ response.body.flags = <<"no_speech_detected">>

\* C10: once an audio request has been answered, none of the temporary
\* files it created is left on disk, however the request ended.
C10_NoTempFileRemains ==
    (Answered /\ req.kind = "audio") => created \cap disk = {}

\* ffmpeg was missing or the conversion timed out
TranscoderFailed ==
    /\ CallsOf("ffmpeg") # <<>>
    /\ CallsOf("ffmpeg")[1].reply \in {<<"missing">>, <<"timeout">>}

\* what tells one kind of error from another: the status code and the
\* category the message opens with
ErrorCategory(r) == <<r.status, r.detail[1]>>

\* the category under which a speech-to-text or scoring-oracle failure of
\* the audio request is reported
OracleFailureCategory == <<500, "Audio analysis failed: ">>

\* C11: a transcoding failure (tool missing, conversion timed out) ends the
\* audio request with an error, and that error is reported under a code or
\* category other than the one of a speech-to-text or scoring-oracle
\* failure.
C11_TranscoderFailureDistinct ==
    (Answered /\ req.kind = "audio" /\ TranscoderFailed) =>
        /\ response.status >= 400
        /\ response.body = NoValue
        /\ ErrorCategory(response) # OracleFailureCategory

\* C18: no step of a request modifies a process-wide value: the settings
\* and the environment of the process (the classifier credential variable
\* included) stay as they are while requests run.
C18_NoProcessStateModified ==
    [][settings' = settings /\ environ' = environ]_vars

\* the score Stage A received and the score Stage B received
RawScore == content.value.ai_generated_score
GptScore == result.ai_generated_score

\* the tier of a score of 0..100, by its range
TierOf(score) ==
    CASE score \in 0..20 -> "likely_real"
      [] score \in 21..40 -> "low_suspicion"
      [] score \in 41..60 -> "uncertain"
      [] score \in 61..80 -> "likely_ai"
      [] score \in 81..100 -> "strong_ai_indicators"
      [] OTHER -> "none"

\* C12: with the classifier unavailable Stage B is the identity on the
\* Stage-A score: for every gptScore of 0..100 the blended score is
\* gptScore, no boost is recorded, and the band of the result is the tier
\* of gptScore.
C12_UnavailableIsIdentity ==
    (pc = "combined" /\ ~aiornot_result.available) =>
        /\ combine_ai_scores(GptScore, aiornot_result) = <<GptScore, FALSE>>
        /\ response.body.ai_generated_score = GptScore
        /\ response.body.escalation_applied = result.escalation_applied
        /\ response.body.confidence_band = TierOf(GptScore)

\* a Stage-A score of 61 combined with an unavailable classifier
C12_Witness ==
    /\ pc = "combined" /\ ~aiornot_result.available
    /\ GptScore = 61
    /\ response.body.ai_generated_score = 61
    /\ response.body.confidence_band = "likely_ai"
    /\ response.body.escalation_applied = FALSE

\* C13: Stage A never decreases the score: for every raw score of 0..100,
\* every list of signals and every assignment of category scores, the
\* score it writes is at least the raw score and at most 100.
C13_StageAMonotone ==
    (pc \in {"calibrated", "combined"}) =>
        /\ GptScore >= RawScore
        /\ GptScore <= 100

\* a raw score of 90 with two signals of severity high, left at 90
C13_Witness ==
    /\ pc = "calibrated"
    /\ RawScore = 90
    /\ "top_signals" \in DOMAIN content.value
    /\ Len(content.value.top_signals) = 2
    /\ content.value.top_signals[1].severity = "high"
    /\ content.value.top_signals[2].severity = "high"
    /\ GptScore = 90

\* n / d rounded to the nearest integer (halves up)
RoundDiv(n, d) == (2 * n + d) \div (2 * d)

\* k is n / d rounded to the nearest integer, a half rounded either way
IsRounded(k, n, d) == 2 * d * k - 2 * n <= d /\ 2 * n - 2 * d * k <= d

\* the classifier gave a verdict with a confidence of [0, 1]
Classified(verdict) ==
    /\ pc = "combined"
    /\ aiornot_result.available
    /\ aiornot_result.verdict = verdict
    /\ aiornot_result.ai_confidence \in 0..100

\* C14: verdict ai with confidence >= 0.7: classifierScore is
\* round(confidence * 100), the blended score is the larger of
\* round(classifierScore * 0.6 + gptScore * 0.4) and round(confidence * 80),
\* rounded to the nearest integer, and the boost flag is true exactly when
\* the blended score exceeds gptScore.
C14_HighConfidenceAiBlend ==
    (Classified("ai") /\ aiornot_result.ai_confidence >= 70) =>
        LET classifierScore == RoundDiv(aiornot_result.ai_confidence * 100, 100)
            blended ==
                MaxOf(RoundDiv(classifierScore * 6 + GptScore * 4, 10),
                      RoundDiv(aiornot_result.ai_confidence * 80, 100))
        IN /\ combine_ai_scores(GptScore, aiornot_result) =
                    <<blended, blended > GptScore>>
           /\ response.body.ai_generated_score = blended

\* C15: verdict human with confidence <= 0.3: the blended score is
\* round(classifierScore * 0.4 + gptScore * 0.6), rounded to the nearest
\* integer, and the boost flag is false.
C15_ConfidentHumanBlend ==
    (Classified("human") /\ aiornot_result.ai_confidence <= 30) =>
        LET classifierScore == RoundDiv(aiornot_result.ai_confidence * 100, 100)
            blended == RoundDiv(classifierScore * 4 + GptScore * 6, 10)
        IN /\ combine_ai_scores(GptScore, aiornot_result) = <<blended, FALSE>>
           /\ response.body.ai_generated_score = blended

\* neither confident branch applies to the verdict
UncertainBand ==
    /\ pc = "combined"
    /\ aiornot_result.available
    /\ aiornot_result.ai_confidence \in 0..100
    /\ ~(aiornot_result.verdict = "ai" /\ aiornot_result.ai_confidence >= 70)
    /\ ~(aiornot_result.verdict = "human" /\ aiornot_result.ai_confidence <= 30)

\* C16: in the uncertain band the blended score is
\* (classifierScore + gptScore) / 2 rounded to the nearest integer, unless
\* the two scores differ by more than 40, when it is the larger of the two
\* minus 10 (a difference of exactly 40 takes the average); the boost flag
\* is true exactly when the blended score exceeds gptScore.
C16_UncertainBlend ==
    UncertainBand =>
        LET classifierScore == RoundDiv(aiornot_result.ai_confidence * 100, 100)
            blended == response.body.ai_generated_score
        IN /\ IF Abs(classifierScore - GptScore) > 40
              THEN blended = MaxOf(classifierScore, GptScore) - 10
              ELSE IsRounded(blended, classifierScore + GptScore, 2)
           /\ combine_ai_scores(GptScore, aiornot_result) =
                    <<blended, blended > GptScore>>

\* C17: the band is a total function of the score with inclusive upper
\* boundaries (0..20 likely_real, 21..40 low_suspicion, 41..60 uncertain,
\* 61..80 likely_ai, 81..100 strong_ai_indicators), and the band of an
\* image result is the tier of the score it returns, whatever band the
\* oracle reported; a score the blend left outside 0..100 falls in the
\* nearest tier by the same thresholds.
C17_BandIsTierOfScore ==
    /\ (pc \in {"calibrated", "combined"}) =>
            result.confidence_band = TierOf(GptScore)
    /\ (pc = "combined") =>
            response.body.confidence_band =
                IF response.body.ai_generated_score < 0 THEN "likely_real"
                ELSE IF response.body.ai_generated_score > 100
                THEN "strong_ai_indicators"
                ELSE TierOf(response.body.ai_generated_score)

\* a reply whose oracle reported strong_ai_indicators returned with score
\* 20 and band likely_real
C17_Witness ==
    /\ pc = "combined"
    /\ "confidence_band" \in DOMAIN content.value
    /\ content.value.confidence_band = "strong_ai_indicators"
    /\ response.body.ai_generated_score = 20
    /\ response.body.confidence_band = "likely_real"

\* what Stage A received beside the score
RawSignals == DictGet(content.value, "top_signals", <<>>)
RawCategoryScores == DictGet(content.value, "category_scores", <<>>)

\* the categories with a sub-score of at least 5 points, the signals of
\* severity high, the structure sub-score in tenths
AffectedCategories ==
    {c \in DOMAIN RawCategoryScores : RawCategoryScores[c] >= 50}
HighSignals ==
    {i \in 1..Len(RawSignals) : RawSignals[i].severity = "high"}
StructureScore ==
    IF "structure" \in DOMAIN RawCategoryScores
    THEN RawCategoryScores["structure"] ELSE 0

\* C19: rule 1 of Stage A: with at least 3 categories at a sub-score of 5
\* or more the score becomes min(100, raw + 15) and escalation is marked,
\* for every raw score of 0..100, the capped ones of 86..100 included; with
\* fewer such categories rule 1 changes nothing.
C19_RuleOneAddsFifteen ==
    (pc = "calibrated") =>
        IF Cardinality(AffectedCategories) >= 3
        THEN /\ Rule1(RawScore, RawCategoryScores) =
                    <<MinOf(100, RawScore + 15), TRUE>>
             /\ GptScore >= MinOf(100, RawScore + 15)
             /\ result.escalation_applied = TRUE
        ELSE Rule1(RawScore, RawCategoryScores) = <<RawScore, FALSE>>

\* the score after rule 1, after rule 2 and after rule 3
AfterRule1 ==
    IF Cardinality(AffectedCategories) >= 3
    THEN MinOf(100, RawScore + 15) ELSE RawScore
AfterRule2 ==
    IF Cardinality(HighSignals) >= 2 /\ AfterRule1 < 70 THEN 70 ELSE AfterRule1
AfterRule3 ==
    IF StructureScore >= 200 /\ AfterRule2 < 75 THEN 75 ELSE AfterRule2

\* C20: rules 2 and 3 of Stage A are floors applied in order after rule 1,
\* each on the previous rule's output: with at least 2 signals of severity
\* high the score is at least 70, with a structure sub-score of 20 or more
\* at least 75, a score at or above a floor is left as it is, and a rule
\* marks escalation exactly when it raised the score.
C20_RulesTwoAndThreeAreFloors ==
    (pc = "calibrated") =>
        /\ GptScore = AfterRule3
        /\ Cardinality(HighSignals) >= 2 => GptScore >= 70
        /\ StructureScore >= 200 => GptScore >= 75
        /\ (Cardinality(AffectedCategories) < 3
                /\ ~DictGet(content.value, "escalation_applied", FALSE)) =>
              result.escalation_applied = (GptScore > RawScore)

\* a raw score of 72 with two signals of severity high and a structure
\* sub-score of exactly 20: rule 2 leaves it, rule 3 raises it to 75
C20_Witness ==
    /\ pc = "calibrated"
    /\ RawScore = 72
    /\ Cardinality(HighSignals) = 2
    /\ StructureScore = 200
    /\ Cardinality(AffectedCategories) = 1
    /\ GptScore = 75
    /\ result.escalation_applied = TRUE

\* what the classifier call of this request came back with
ClassifierReply ==
    IF CallsOf("classifier") = <<>>
    THEN Unavailable("no call")
    ELSE CallsOf("classifier")[1].reply

\* the classifier answered with the verdict ai
DetectedAi == ClassifierReply.available /\ ClassifierReply.verdict = "ai"

\* an image request answered with a result from the live path
LiveImageResult ==
    /\ Answered /\ req.kind = "image"
    /\ response.status = 200
    /\ ChatCalls # <<>>

\* the signals of the oracle's reply
OwnSignals == DictGet(OracleValue, "top_signals", <<>>)

\* the positions of a signal list that hold an ml-detection signal
MlDetection(signals) ==
    {i \in 1..Len(signals) : signals[i].category = "ml_detection"}

\* C21: in a live image result, exactly when the classifier is available
\* with verdict ai, one synthesized ml-detection signal is the first element
\* of top_signals, of severity high if the confidence is at least 0.7 and
\* medium otherwise, and the oracle's own signals follow in their order;
\* otherwise no such signal is added.
C21_MlSignalFirst ==
    LiveImageResult =>
        LET sigs == response.body.top_signals
            k == IF DetectedAi THEN 1 ELSE 0
        IN /\ Len(sigs) = Len(OwnSignals) + k
           /\ \A i \in 1..Len(OwnSignals) :
                /\ sigs[i + k].category = OwnSignals[i].category
                /\ sigs[i + k].signal = OwnSignals[i].signal
                /\ sigs[i + k].description = OwnSignals[i].description
                /\ sigs[i + k].severity = OwnSignals[i].severity
           /\ Cardinality(MlDetection(sigs)) = k
           /\ DetectedAi =>
                /\ sigs[1].category = "ml_detection"
                /\ sigs[1].severity =
                      IF ClassifierReply.ai_confidence >= 70
                      THEN "high" ELSE "medium"

\* verdict ai at confidence exactly 0.7 in front of three signals of the
\* oracle
C21_Witness ==
    /\ LiveImageResult /\ DetectedAi
    /\ ClassifierReply.ai_confidence = 70
    /\ Len(OwnSignals) = 3
    /\ Len(response.body.top_signals) = 4
    /\ response.body.top_signals[1].severity = "high"
    /\ response.body.top_signals[3].severity = "low"

\* how often a token occurs in a flag list
Occurrences(flags, token) ==
    Cardinality({i \in 1..Len(flags) : flags[i] = token})

\* C22: adding the classifier's deepfake and explicit-content flags is
\* idempotent: when the classifier flags one, the returned flag list holds
\* its token exactly once, also when the oracle's own flag list held the
\* token already; the list never holds a classifier token twice.
C22_ClassifierFlagsOnce ==
    LiveImageResult =>
        /\ Occurrences(response.body.flags, "deepfake_detected") <= 1
        /\ Occurrences(response.body.flags, "nsfw_content") <= 1
        /\ (ClassifierReply.available /\ ClassifierReply.deepfake_detected) =>
              Occurrences(response.body.flags, "deepfake_detected") = 1
        /\ (ClassifierReply.available /\ ClassifierReply.nsfw_detected) =>
              Occurrences(response.body.flags, "nsfw_content") = 1

\* C24: in every image result the endpoint returns, mock or live,
\* confidence_band is the tier of the returned ai_generated_score (a score
\* of 0 comes with likely_real).
C24_BandMatchesScoreMockOrLive ==
    (Answered /\ req.kind = "image" /\ response.status = 200) =>
        response.body.confidence_band = TierOf(response.body.ai_generated_score)

\* C25: in every live image result signal_count is the number of elements
\* of the returned top_signals, also when the ml-detection signal was
\* inserted.
C25_SignalCountIsLength ==
    LiveImageResult =>
        response.body.signal_count = Len(response.body.top_signals)

\* C29: the classifier call leaves the environment as it found it: when
\* call_aiornot_api returns, on every path, AIORNOT_API_KEY is absent if it
\* was absent before and has the value it had before, the empty value
\* included.
C29_EnvironmentRestored ==
    [][/\ (pc = "classifier" /\ pc' = "assemble") => environ' = environ
       /\ (pc = "classifier_call" /\ pc' = "assemble") =>
              environ' = original_key]_vars

\* C30: in a live audio request a later step is invoked only if the earlier
\* one succeeded: after a transcoder failure (tool missing, timeout,
\* non-zero exit status) neither the speech-to-text oracle nor the scoring
\* oracle is invoked, and the scoring oracle is never invoked without a
\* transcript.
C30_StepsInOrder ==
    (req.kind = "audio") =>
        /\ (CallsOf("ffmpeg") # <<>> /\ CallsOf("ffmpeg")[1].failed) =>
              (CallsOf("stt") = <<>> /\ ChatCalls = <<>>)
        /\ CallsOf("stt") # <<>> => CallsOf("ffmpeg") # <<>>
        /\ ChatCalls # <<>> =>
              (CallsOf("stt") # <<>> /\ ~CallsOf("stt")[1].failed)

\* the reply without its leading fence line and without its trailing fence
\* line, each taken off where it is there
WithoutFenceLines(raw) ==
    LET text == Strip(raw)
        lines == SplitLines(text)
        body == IF text # <<>> /\ text[1] = "FENCE" THEN Tail(lines) ELSE lines
        last == Len(body)
    IN IF body # <<>> /\ Strip(body[last]) = <<"FENCE">>
       THEN JoinLines(SubSeq(body, 1, last - 1))
       ELSE JoinLines(body)

\* C23: the normalizer takes at most one leading fence line (delimiter with
\* an optional language tag) and at most one trailing fence line off the
\* trimmed reply and changes nothing else: a reply without a fence is
\* parsed as it is, a reply with a trailing fence line is parsed without
\* it, and what does not parse after that fails with a parse error.
C23_FenceLinesStripped ==
    (pc = "parsed") =>
        /\ result.ok = (Strip(WithoutFenceLines(content.text)) = <<"JSON">>)
        /\ result.ok => result.value = content.value
        /\ ~result.ok => result.msg # ""

\* C26: in a live image result escalation_applied is true only if a rule
\* of Stage A raised the score or Stage B set the boost flag; an
\* escalation_applied the oracle reported has no influence.
C26_EscalationOnlyFromCalibration ==
    (pc = "combined") =>
        (response.body.escalation_applied =>
            \/ GptScore > RawScore
            \/ combine_ai_scores(GptScore, aiornot_result)[2])

\* the score Stage B gives a Stage-A score with the classifier outcome of
\* this state, and the classifier's score
Blended(gpt_score) == combine_ai_scores(gpt_score, aiornot_result)[1]
ClassifierScore == IntTimes100(aiornot_result.ai_confidence)

\* C27: Stage B is monotonically non-decreasing in gptScore: for a fixed
\* available verdict and confidence and Stage-A scores a <= b of 0..100,
\* blended(a) <= blended(b), across the boundary of the disagreement
\* override included.
C27_StageBMonotone ==
    (pc = "combined" /\ aiornot_result.available) =>
        \A a \in 0..GptScore : Blended(a) <= Blended(GptScore)

\* C27, amended: blended(a) <= blended(b) for a <= b except where, in the
\* uncertain band, the classifier's score is more than 40 above a and not
\* more than 40 above b: there the override applies to a alone and the
\* score may drop (classifier 50: 9 gives 40, 10 gives 30).
C27_MonotoneButAtOverrideBoundary ==
    (pc = "combined" /\ aiornot_result.available) =>
        \A a \in 0..GptScore :
            \/ Blended(a) <= Blended(GptScore)
            \/ /\ UncertainBand
               /\ ClassifierScore - a > 40
               /\ ClassifierScore - GptScore <= 40

\* classifier 50 and a Stage-A score of 91, where the override applies
\* (81) and does not apply to the scores of 10..90 below it
C27_Witness ==
    /\ pc = "combined" /\ aiornot_result.available
    /\ aiornot_result.verdict = "ai" /\ aiornot_result.ai_confidence = 50
    /\ GptScore = 91
    /\ response.body.ai_generated_score = 81
    /\ Blended(90) = 70

\* C28: with verdict ai and a confidence of [0.7, 1.0] the blended score is
\* at least 56 for every gptScore of 0..100, so the band is neither
\* likely_real nor low_suspicion, and the score is not below
\* 0.4 * gptScore + 42 rounded down.
C28_HighConfidenceAiFloor ==
    (pc = "combined" /\ aiornot_result.available
        /\ aiornot_result.verdict = "ai"
        /\ aiornot_result.ai_confidence \in 70..100) =>
        /\ response.body.ai_generated_score >= 56
        /\ response.body.confidence_band \notin {"likely_real", "low_suspicion"}
        /\ response.body.ai_generated_score >= (4 * GptScore + 420) \div 10

\* confidence exactly 0.7 on a Stage-A score of 0: the floor of 56
C28_Witness ==
    /\ pc = "combined" /\ aiornot_result.available
    /\ aiornot_result.verdict = "ai"
    /\ aiornot_result.ai_confidence = 70
    /\ GptScore = 0
    /\ response.body.ai_generated_score = 56
    /\ response.body.confidence_band = "uncertain"

====
